---- MODULE Spec2Model ----
(***************************************************************************)
(* A model of the document-service driver layer:                           *)
(*   - SinglePromise, the single-flight coalescer (editor.ts 373-399),     *)
(*   - ExperimentalOdspDocumentService (editor.ts 216-365), whose          *)
(*     constructor, connectToDeltaStorage and connectToDeltaStream share   *)
(*     one coalesced "join session" discovery call,                        *)
(*   - the RateLimiter that documentServiceFactory.ts constructs for the   *)
(*     orderer requests.                                                   *)
(* Promises are modelled at the granularity of the JavaScript job queue:   *)
(* the underlying call settles, then the reaction registered on it runs,   *)
(* then the derived promise settles, then the functions awaiting it        *)
(* resume.                                                                 *)
(***************************************************************************)
EXTENDS Integers, Sequences, FiniteSets, TLC

\* Bounds of the model.
MaxCalls == 3       \* discovery calls (invocations of fn) per service
MaxOps == 3         \* accessor invocations per service
MaxVersion == 2     \* distinct endpoint snapshots the backend may return
MaxUnits == 4       \* units of work submitted to a limiter
MaxK == 2           \* largest configured limiter capacity
MaxSegs == 3        \* segments of a locator path
MaxInv == 2         \* factory calls
MaxOverlap == 3     \* createContainer calls in flight at once
MaxSubmitted == 3   \* units submitted to each of the two limiters
MaxLength == 4      \* positions of the editor's document
MaxContainers == 2  \* containers created by one AzureClient
MaxAttach == 3      \* attach() calls on one container
MaxReads == 3       \* reads of response that one promise of the coalescer serves
MaxVersions == 4    \* distinct legacy versions in the compat configuration

VARIABLES
    \* SinglePromise
    active,                          \* SinglePromise.active
    pResponse,                       \* SinglePromise.pResponse: 0 is undefined, else a promise id
    fnCalls,                         \* number of times fn() was invoked; call i backs promise i
    fnState,                         \* state of the promise returned by the i-th fn() ("threw": none returned)
    fnResult,                        \* endpoints the i-th fn() resolved with (0: none)
    chain,                           \* progress of fn().then(..).catch(..) for call i
    handed,                          \* history: how many reads of response returned promise i
    \* ExperimentalOdspDocumentService
    constructed,                     \* the constructor has run
    websocketEndpointP,              \* the stored endpoint handle: a promise id (0 before construction)
    attemptedDeltaStreamConnection,
    nOps,                            \* accessor invocations started so far
    ops,                             \* the accessor invocations (async function activations)
    \* RouterliciousDocumentServiceFactory
    driverPolicies,                  \* the effective policies (capacities 0 before construction)
    \* Concurrency Limiter (the orderer RateLimiter)
    capacity,                        \* configured maximum K (0 before construction)
    running,                         \* the limiter's counter of admitted, uncompleted units
    waitQueue,                       \* FIFO wait queue of unit ids
    unit,                            \* per-unit status
    nUnits,                          \* units submitted so far
    admitted,                        \* history: units in the order they were admitted
    everQueued,                      \* history: units that had to wait in the queue
    \* RouterliciousDocumentServiceFactory.createContainer / createDocumentService
    cc,                              \* the factory call under way, or the last one made
    nInv,                            \* factory calls made so far
    backendDocs,                     \* documents the backend has created
    \* overlapping createContainer calls on one factory
    calls,                           \* per call: its position and the limiter it built
    \* the storage and the orderer Concurrency Limiter side by side
    lim,                             \* per class: units running and units waiting
    submitted,                       \* history: units submitted per class
    \* Editor
    docLength,                       \* doc.length
    selection,                       \* caret.selection: [start, end]
    removeCall,                      \* the last doc.remove call Editor.delete made, with its inputs
    \* mochaGlobalSetup
    installP,                        \* per version: the state of its install promise
    setup,                           \* the activation of mochaGlobalSetup
    \* AzureClient.createContainer and the attach() of its containers
    containers                       \* per container: attach state, attach() calls, create requests

svcVars == <<active, pResponse, fnCalls, fnState, fnResult, chain, handed, constructed,
             websocketEndpointP, attemptedDeltaStreamConnection, nOps, ops>>
rlVars == <<driverPolicies, capacity, running, waitQueue, unit, nUnits, admitted, everQueued>>
facVars == <<cc, nInv, backendDocs>>
ovVars == <<calls>>
limVars == <<lim, submitted>>
edVars == <<docLength, selection, removeCall>>
mgVars == <<installP, setup>>
azVars == <<containers>>
extVars == <<edVars, mgVars, azVars>>
baseVars == <<svcVars, rlVars, facVars, ovVars, limVars>>
vars == <<baseVars, extVars>>

Calls == 1..MaxCalls
Ops == 1..MaxOps
Versions == 1..MaxVersion
Units == 1..MaxUnits

\* An accessor invocation that has not started.
\* instance is the sub-service object it returned (0: none), sockets the number
\* of times it called DocumentDeltaConnection.create.  tenantId, id and url are
\* the discovery results (0: none) whose tenant id, document id and stream or
\* delta-storage URL it used.
IdleOp == [kind |-> "none", pc |-> "idle", p |-> 0, ep |-> 0, token |-> "none",
           reconnect |-> FALSE, err |-> "none", instance |-> 0, sockets |-> 0,
           tenantId |-> 0, id |-> 0, url |-> 0]

OverlapIds == 1..MaxOverlap

\* A createContainer call that has not begun, with the limiter it will build.
IdleOverlap == [pc |-> "idle", limiterCapacity |-> 0, limiterRunning |-> 0]

\* The two backend classes, each with a limiter.
Classes == {"storage", "orderer"}

\* The value of a variable or field that is undefined.
Undefined == "<undefined>"

\* JavaScript's !x for the strings and undefined used here.
Falsy(x) == x = Undefined \/ x = ""

\* An endpoint URL that is undefined, the empty string, or a URL with a path.
UndefinedUrl == [form |-> "undefined", pathname |-> <<>>]
EmptyUrl == [form |-> "empty", pathname |-> <<>>]
Url(p) == [form |-> "url", pathname |-> p]

\* JavaScript's !u for an endpoint URL.
FalsyUrl(u) == u.form # "url"

\* The argument that is undefined where a summary tree is expected.
UndefinedSummary == [defined |-> FALSE, protocol |-> FALSE, app |-> FALSE]

NoLocator == [pathname |-> <<>>, id |-> Undefined, ordererUrl |-> Undefined,
              deltaStorageUrl |-> UndefinedUrl]

\* No factory call has been made.  names are the fields the error message
\* names, requests the create-document requests the call has posted, service
\* the Document Service it returned, if any, attachedId what attach() returned
\* to the application.
IdleCall == [op |-> "none", pc |-> "idle", summary |-> UndefinedSummary, locator |-> NoLocator,
             error |-> "none", names |-> {}, tokenRequests |-> 0, requests |-> <<>>,
             limiterRunning |-> 0, documentId |-> Undefined, service |-> {},
             attachedId |-> Undefined]

\* mochaGlobalSetup has not been called: n is versions.size, k the index of
\* the install it awaits, error the local "error" (0 is undefined, i the error
\* of install i); failedEarly records that an install failed before the loop
\* reached it.
IdleSetup == [pc |-> "idle", n |-> 0, k |-> 0, error |-> 0, failedEarly |-> FALSE]

\* A container AzureClient.createContainer has not created yet: its attach
\* state, the positions of the attach() calls made on it and the number of
\* create-document requests sent for it.
NoContainer == [attachState |-> "none", nCalls |-> 0,
                attach |-> [i \in 1..MaxAttach |-> [pc |-> "idle", error |-> "none"]],
                createRequests |-> 0]

\* No doc.remove call has been made yet.
NoRemoveCall == [direction |-> "none", start |-> 0, end |-> 0, length |-> 0, a |-> 0, b |-> 0]

(***************************************************************************)
(* Promise bookkeeping.                                                    *)
(***************************************************************************)

PSettledWithFn(i) == i \in Calls /\ fnState[i] \in {"resolved", "rejected"}

\* The promise handed out by the coalescer for call i is pending until the
\* .then/.catch chain has run to its end.
PSettled(i) == i \in Calls /\ chain[i] = "settled"
PFulfilled(i) == PSettled(i) /\ fnState[i] = "resolved"
PRejected(i) == PSettled(i) /\ fnState[i] = "rejected"

\* Discovery calls that have started and not yet settled.
InFlight == {i \in Calls : fnState[i] = "pending"}

(***************************************************************************)
(* SinglePromise                                                           *)
(***************************************************************************)

responseCachedNever == FALSE

\* "if we are actively running and we have a response return it"
responseCached == active /\ pResponse # 0

activeOnStartUnset == active

\* "this.active = true" before fn() is called
activeOnStart == TRUE

\* The getter SinglePromise.response; ret is the promise it returns.  A new
\* call of fn() is numbered fnCalls + 1 and backs the promise of that number.
response(ret) ==
    /\ handed' = [handed EXCEPT ![ret] = @ + 1]
    /\ IF responseCached
       THEN /\ ret = pResponse
            /\ UNCHANGED <<active, pResponse, fnCalls, fnState, chain>>
       ELSE /\ fnCalls < MaxCalls
            /\ ret = fnCalls + 1
            /\ active' = activeOnStart
            /\ fnCalls' = fnCalls + 1
            /\ fnState' = [fnState EXCEPT ![fnCalls + 1] = "pending"]
            /\ chain' = [chain EXCEPT ![fnCalls + 1] = "waiting"]
            /\ pResponse' = fnCalls + 1

activeAfterThenStale == active

\* .then((response) => { this.active = false; return response; })
activeAfterThen == FALSE

activeAfterCatchStale == active

\* .catch((e) => { this.active = false; return Promise.reject(e); })
activeAfterCatch == FALSE

\* The reaction registered on fn()'s promise runs once that promise is resolved.
thenHandler(i) ==
    /\ fnState[i] = "resolved" /\ chain[i] = "waiting"
    /\ active' = activeAfterThen
    /\ chain' = [chain EXCEPT ![i] = "handled"]
    /\ UNCHANGED <<pResponse, fnCalls, fnState, fnResult, handed, constructed, websocketEndpointP,
                   attemptedDeltaStreamConnection, nOps, ops, extVars, rlVars, facVars, ovVars, limVars>>

\* A rejection passes through .then and reaches the .catch reaction.
catchHandler(i) ==
    /\ fnState[i] = "rejected" /\ chain[i] = "waiting"
    /\ active' = activeAfterCatch
    /\ chain' = [chain EXCEPT ![i] = "handled"]
    /\ UNCHANGED <<pResponse, fnCalls, fnState, fnResult, handed, constructed, websocketEndpointP,
                   attemptedDeltaStreamConnection, nOps, ops, extVars, rlVars, facVars, ovVars, limVars>>

\* The promise stored in pResponse settles with what its reaction returned.
pResponseSettles(i) ==
    /\ chain[i] = "handled"
    /\ chain' = [chain EXCEPT ![i] = "settled"]
    /\ UNCHANGED <<active, pResponse, fnCalls, fnState, fnResult, handed, constructed, websocketEndpointP,
                   attemptedDeltaStreamConnection, nOps, ops, extVars, rlVars, facVars, ovVars, limVars>>

(***************************************************************************)
(* The backend's "join session" discovery call                             *)
(***************************************************************************)

getSocketStorageDiscoveryResolves(i, v) ==
    /\ fnState[i] = "pending"
    /\ fnState' = [fnState EXCEPT ![i] = "resolved"]
    /\ fnResult' = [fnResult EXCEPT ![i] = v]
    /\ UNCHANGED <<active, pResponse, fnCalls, chain, handed, constructed, websocketEndpointP,
                   attemptedDeltaStreamConnection, nOps, ops, extVars, rlVars, facVars, ovVars, limVars>>

getSocketStorageDiscoveryRejects(i) ==
    /\ fnState[i] = "pending"
    /\ fnState' = [fnState EXCEPT ![i] = "rejected"]
    /\ UNCHANGED <<active, pResponse, fnCalls, fnResult, chain, handed, constructed, websocketEndpointP,
                   attemptedDeltaStreamConnection, nOps, ops, extVars, rlVars, facVars, ovVars, limVars>>

(***************************************************************************)
(* ExperimentalOdspDocumentService                                         *)
(***************************************************************************)

websocketEndpointPLazy(ret) ==
    /\ ret = 1 /\ websocketEndpointP' = 0
    /\ UNCHANGED <<active, pResponse, fnCalls, fnState, chain, handed>>

\* this.websocketEndpointP = this.websocketEndpointRequestThrottler.response
websocketEndpointPAtConstruction(ret) == response(ret) /\ websocketEndpointP' = ret

\* The constructor builds the throttler and reads its response at once.
Constructor ==
    /\ ~constructed
    /\ \E ret \in Calls : websocketEndpointPAtConstruction(ret)
    /\ attemptedDeltaStreamConnection' = FALSE
    /\ constructed' = TRUE
    /\ UNCHANGED <<fnResult, nOps, ops, extVars, rlVars, facVars, ovVars, limVars>>

\* "new OdspDocumentStorageService(...)", "new DocumentDeltaStorageService(...)":
\* every evaluation makes an object of its own, named by the invocation.
newInstance(o) == o

\* connectToStorage: it has no await and returns a new storage service.
connectToStorage(o) ==
    /\ constructed /\ o = nOps + 1
    /\ nOps' = o
    /\ ops' = [ops EXCEPT ![o] = [IdleOp EXCEPT !.kind = "storage", !.pc = "returned",
                                                 !.instance = newInstance(o)]]
    /\ UNCHANGED <<active, pResponse, fnCalls, fnState, fnResult, chain, handed, constructed,
                   websocketEndpointP, attemptedDeltaStreamConnection, extVars, rlVars, facVars, ovVars, limVars>>

\* branch: "return ''" in an async function; the call returns the empty string.
branch(o) ==
    /\ constructed /\ o = nOps + 1
    /\ nOps' = o
    /\ ops' = [ops EXCEPT ![o] = [IdleOp EXCEPT !.kind = "branch", !.pc = "returned"]]
    /\ UNCHANGED <<active, pResponse, fnCalls, fnState, fnResult, chain, handed, constructed,
                   websocketEndpointP, attemptedDeltaStreamConnection, extVars, rlVars, facVars, ovVars, limVars>>

\* connectToDeltaStorage up to its first await: it awaits the stored handle.
connectToDeltaStorage(o) ==
    /\ constructed /\ o = nOps + 1
    /\ nOps' = o
    /\ ops' = [ops EXCEPT ![o] = [IdleOp EXCEPT !.kind = "deltaStorage", !.pc = "awaitEndpoint",
                                                 !.p = websocketEndpointP]]
    /\ UNCHANGED <<active, pResponse, fnCalls, fnState, fnResult, chain, handed, constructed,
                   websocketEndpointP, attemptedDeltaStreamConnection, extVars, rlVars, facVars, ovVars, limVars>>

refreshOnReconnectAlways == TRUE

refreshOnReconnectNever == FALSE

\* "when it's not the first time through ... we should refresh our knowledge"
refreshOnReconnect == attemptedDeltaStreamConnection

attemptedAfterBeginStale == attemptedDeltaStreamConnection

\* this.attemptedDeltaStreamConnection = true
attemptedAfterBegin == TRUE

\* connectToDeltaStream up to its first await.
connectToDeltaStream(o) ==
    /\ constructed /\ o = nOps + 1
    /\ nOps' = o
    /\ IF refreshOnReconnect
       THEN \E ret \in Calls : response(ret) /\ websocketEndpointP' = ret
       ELSE UNCHANGED <<active, pResponse, fnCalls, fnState, chain, handed, websocketEndpointP>>
    /\ attemptedDeltaStreamConnection' = attemptedAfterBegin
    /\ ops' = [ops EXCEPT ![o] = [IdleOp EXCEPT !.kind = "deltaStream", !.pc = "awaitEndpoint",
                                                 !.p = websocketEndpointP',
                                                 !.reconnect = attemptedDeltaStreamConnection]]
    /\ UNCHANGED <<fnResult, constructed, extVars, rlVars, facVars, ovVars, limVars>>

awaitThrowsNever(o) == FALSE

\* An await of a rejected promise throws in the awaiting function.
awaitThrows(o) == fnState[ops[o].p] = "rejected"

\* "const websocketEndpoint = await this.websocketEndpointP" completes: the
\* function resumes with the endpoints, or rejects with the discovery failure.
\* It then calls the token provider and suspends again.
resumeWithEndpoint(o) ==
    /\ ops[o].pc = "awaitEndpoint" /\ PSettled(ops[o].p)
    /\ ops' = [ops EXCEPT ![o] = IF ~awaitThrows(o)
                                 THEN [@ EXCEPT !.ep = fnResult[ops[o].p], !.pc = "awaitToken",
                                                !.tenantId = fnResult[ops[o].p],
                                                !.id = fnResult[ops[o].p]]
                                 ELSE [@ EXCEPT !.pc = "rejected", !.err = "discovery"]]
    /\ UNCHANGED <<active, pResponse, fnCalls, fnState, fnResult, chain, handed, constructed,
                   websocketEndpointP, attemptedDeltaStreamConnection, nOps, extVars, rlVars, facVars, ovVars, limVars>>

websocketEndpointReread(o) == fnResult[websocketEndpointP]

\* The local "const websocketEndpoint", read again after the token await for
\* deltaStreamSocketUrl or deltaStorageUrl.
websocketEndpoint(o) == ops[o].ep

socketAttemptsRetried(n) == n + 2

\* One call of DocumentDeltaConnection.create.
socketAttempts(n) == n + 1

afterTokenNullThrows(tok) == IF tok = "null" THEN "rejected" ELSE "awaitSocket"

\* "await this.getWebsocketToken()" is an argument of
\* DocumentDeltaConnection.create: whatever the provider resolved to, null
\* included, the call is made next and the function awaits the socket.
afterToken(tok) == "awaitSocket"

\* The token provider answers.  connectToDeltaStorage then returns its service;
\* connectToDeltaStream calls DocumentDeltaConnection.create, which opens the
\* socket with the token (possibly null) and the endpoints it read.
tokenResolves(o, tok) ==
    /\ ops[o].pc = "awaitToken"
    /\ ops[o].kind = "deltaStorage" => tok = "token"
    /\ ops' = [ops EXCEPT ![o] =
                 IF ops[o].kind = "deltaStream"
                 THEN [@ EXCEPT !.token = tok, !.pc = afterToken(tok),
                                !.sockets = socketAttempts(@),
                                !.url = websocketEndpoint(o)]
                 ELSE [@ EXCEPT !.token = tok, !.pc = "returned",
                                !.instance = newInstance(o),
                                !.url = websocketEndpoint(o)]]
    /\ UNCHANGED <<active, pResponse, fnCalls, fnState, fnResult, chain, handed, constructed,
                   websocketEndpointP, attemptedDeltaStreamConnection, nOps, extVars, rlVars, facVars, ovVars, limVars>>

tokenRejects(o) ==
    /\ ops[o].pc = "awaitToken"
    /\ ops' = [ops EXCEPT ![o] = [@ EXCEPT !.pc = "rejected", !.err = "token"]]
    /\ UNCHANGED <<active, pResponse, fnCalls, fnState, fnResult, chain, handed, constructed,
                   websocketEndpointP, attemptedDeltaStreamConnection, nOps, extVars, rlVars, facVars, ovVars, limVars>>

\* DocumentDeltaConnection.create settles.
socketConnects(o) ==
    /\ ops[o].pc = "awaitSocket"
    /\ ops' = [ops EXCEPT ![o] = [@ EXCEPT !.pc = "returned"]]
    /\ UNCHANGED <<active, pResponse, fnCalls, fnState, fnResult, chain, handed, constructed,
                   websocketEndpointP, attemptedDeltaStreamConnection, nOps, extVars, rlVars, facVars, ovVars, limVars>>

socketFails(o) ==
    /\ ops[o].pc = "awaitSocket"
    /\ ops' = [ops EXCEPT ![o] = [@ EXCEPT !.pc = "rejected", !.err = "socket"]]
    /\ UNCHANGED <<active, pResponse, fnCalls, fnState, fnResult, chain, handed, constructed,
                   websocketEndpointP, attemptedDeltaStreamConnection, nOps, extVars, rlVars, facVars, ovVars, limVars>>

(***************************************************************************)
(* Initial state and the document-service specification                    *)
(***************************************************************************)

Init ==
    /\ active = FALSE
    /\ pResponse = 0
    /\ fnCalls = 0
    /\ fnState = [i \in Calls |-> "unstarted"]
    /\ fnResult = [i \in Calls |-> 0]
    /\ chain = [i \in Calls |-> "none"]
    /\ handed = [i \in Calls |-> 0]
    /\ constructed = FALSE
    /\ websocketEndpointP = 0
    /\ attemptedDeltaStreamConnection = FALSE
    /\ nOps = 0
    /\ ops = [o \in Ops |-> IdleOp]
    /\ driverPolicies = [maxConcurrentStorageRequests |-> 0, maxConcurrentOrdererRequests |-> 0]
    /\ capacity = 0
    /\ running = 0
    /\ waitQueue = <<>>
    /\ unit = [u \in Units |-> "new"]
    /\ nUnits = 0
    /\ admitted = <<>>
    /\ everQueued = {}
    /\ cc = IdleCall
    /\ nInv = 0
    /\ backendDocs = 0
    /\ calls = [i \in OverlapIds |-> IdleOverlap]
    /\ lim = [c \in Classes |-> [running |-> 0, queued |-> 0]]
    /\ submitted = [c \in Classes |-> 0]
    /\ docLength = 0
    /\ selection = [start |-> 0, end |-> 0]
    /\ removeCall = NoRemoveCall
    /\ installP = [i \in 1..MaxVersions |-> "none"]
    /\ setup = IdleSetup
    /\ containers = [c \in 1..MaxContainers |-> NoContainer]

Next ==
    \/ Constructor
    \/ \E o \in Ops : connectToStorage(o)
    \/ \E o \in Ops : branch(o)
    \/ \E o \in Ops : connectToDeltaStorage(o)
    \/ \E o \in Ops : connectToDeltaStream(o)
    \/ \E i \in Calls, v \in Versions : getSocketStorageDiscoveryResolves(i, v)
    \/ \E i \in Calls : getSocketStorageDiscoveryRejects(i)
    \/ \E i \in Calls : thenHandler(i)
    \/ \E i \in Calls : catchHandler(i)
    \/ \E i \in Calls : pResponseSettles(i)
    \/ \E o \in Ops : resumeWithEndpoint(o)
    \/ \E o \in Ops, tok \in {"token", "null"} : tokenResolves(o, tok)
    \/ \E o \in Ops : tokenRejects(o)
    \/ \E o \in Ops : socketConnects(o)
    \/ \E o \in Ops : socketFails(o)

Spec == Init /\ [][Next]_vars

(***************************************************************************)
(* RouterliciousDocumentServiceFactory: the driver policies and the        *)
(* limiter it builds for the orderer requests.                             *)
(***************************************************************************)

defaultMaxConcurrentStorageRequests == 100
defaultMaxConcurrentOrdererRequests == 100

\* Policy overrides a caller may pass; 0 stands for a field that is not given.
Overrides == [maxConcurrentStorageRequests : 0..(MaxK + 1), maxConcurrentOrdererRequests : 0..MaxK]

\* { ...defaultRouterliciousDriverPolicies, ...driverPolicies }
FactoryConstructor(ov) ==
    /\ driverPolicies.maxConcurrentOrdererRequests = 0
    /\ driverPolicies' =
         [maxConcurrentStorageRequests |->
              IF ov.maxConcurrentStorageRequests = 0 THEN defaultMaxConcurrentStorageRequests
              ELSE ov.maxConcurrentStorageRequests,
          maxConcurrentOrdererRequests |->
              IF ov.maxConcurrentOrdererRequests = 0 THEN defaultMaxConcurrentOrdererRequests
              ELSE ov.maxConcurrentOrdererRequests]
    /\ UNCHANGED <<extVars, svcVars, facVars, ovVars, limVars, capacity, running, waitQueue, unit, nUnits, admitted, everQueued>>

rateLimiterCapacityOfStorage == driverPolicies.maxConcurrentStorageRequests

\* The argument of "new RateLimiter(...)" in createContainer.
rateLimiterCapacity == driverPolicies.maxConcurrentOrdererRequests

\* new RateLimiter(this.driverPolicies.maxConcurrentOrdererRequests)
NewRateLimiter ==
    /\ driverPolicies.maxConcurrentOrdererRequests # 0 /\ capacity = 0
    /\ capacity' = rateLimiterCapacity
    /\ UNCHANGED <<extVars, svcVars, facVars, ovVars, limVars, driverPolicies, running, waitQueue, unit, nUnits, admitted, everQueued>>

(***************************************************************************)
(* The Concurrency Limiter: a counter of running units and a FIFO wait     *)
(* queue, constructed with a capacity.                                     *)
(***************************************************************************)

\* The units that are executing.
Executing == {u \in Units : unit[u] = "running"}

\* A unit is executed at once only when fewer than the maximum are running.
hasFreeSlot == running < capacity

enqueueDropped(u) == waitQueue

\* Otherwise the request is queued, at the tail.
enqueue(u) == Append(waitQueue, u)

\* The admission operation, given unit of work u (units are numbered in the
\* order they are submitted).
submit(u) ==
    /\ capacity > 0 /\ u = nUnits + 1
    /\ nUnits' = u
    /\ IF hasFreeSlot
       THEN /\ running' = running + 1
            /\ unit' = [unit EXCEPT ![u] = "running"]
            /\ admitted' = Append(admitted, u)
            /\ UNCHANGED <<waitQueue, everQueued>>
       ELSE /\ waitQueue' = enqueue(u)
            /\ unit' = [unit EXCEPT ![u] = "queued"]
            /\ everQueued' = everQueued \cup {u}
            /\ UNCHANGED <<running, admitted>>
    /\ UNCHANGED <<extVars, svcVars, facVars, ovVars, limVars, driverPolicies, capacity>>

dequeueLast == [next |-> waitQueue[Len(waitQueue)], rest |-> SubSeq(waitQueue, 1, Len(waitQueue) - 1)]

\* The next queued unit is the one at the head of the queue.
dequeue == [next |-> Head(waitQueue), rest |-> Tail(waitQueue)]

\* Unit u leaves with status st; its slot goes to the next queued unit, if any.
complete(u, st) ==
    IF waitQueue # <<>>
    THEN /\ unit' = [unit EXCEPT ![u] = st, ![dequeue.next] = "running"]
         /\ waitQueue' = dequeue.rest
         /\ admitted' = Append(admitted, dequeue.next)
         /\ UNCHANGED running
    ELSE /\ unit' = [unit EXCEPT ![u] = st]
         /\ running' = running - 1
         /\ UNCHANGED <<waitQueue, admitted>>

\* A running unit completes by success.
unitSucceeds(u) ==
    /\ unit[u] = "running"
    /\ complete(u, "succeeded")
    /\ UNCHANGED <<extVars, svcVars, facVars, ovVars, limVars, driverPolicies, capacity, nUnits, everQueued>>

unitFailsKeepsSlot(u) ==
    /\ unit[u] = "running"
    /\ unit' = [unit EXCEPT ![u] = "failed"]
    /\ UNCHANGED <<extVars, svcVars, facVars, ovVars, limVars, driverPolicies, capacity, running, waitQueue, nUnits, admitted, everQueued>>

\* A running unit completes by failure.
unitFails(u) ==
    /\ unit[u] = "running"
    /\ complete(u, "failed")
    /\ UNCHANGED <<extVars, svcVars, facVars, ovVars, limVars, driverPolicies, capacity, nUnits, everQueued>>

NextRL ==
    \/ \E ov \in Overrides : FactoryConstructor(ov)
    \/ NewRateLimiter
    \/ \E u \in Units : submit(u)
    \/ \E u \in Units : unitSucceeds(u)
    \/ \E u \in Units : unitFails(u)

SpecRL == Init /\ [][NextRL]_vars

\* Every admitted unit eventually settles.
SpecRLFair == SpecRL /\ \A u \in Units : WF_vars(unitSucceeds(u) \/ unitFails(u))

(***************************************************************************)
(* RouterliciousDocumentServiceFactory.createContainer and                 *)
(* createDocumentService.  A locator path is held as the segments that     *)
(* follow its leading "/": pathname.split("/") is the empty string         *)
(* followed by these segments, and the empty pathname has none.  The       *)
(* locators are Fluid locators (ensureFluidResolvedUrl passes).            *)
(***************************************************************************)

TenantSegments == {"", "t1"}
DocumentSegments == {"", "new", "d1"}
FurtherSegments == {"x"}

\* The paths of up to MaxSegs segments.
Pathnames ==
    UNION {{p \in [1..n -> TenantSegments \cup DocumentSegments \cup FurtherSegments] :
                \A k \in 1..n : p[k] \in (CASE k = 1 -> TenantSegments
                                           [] k = 2 -> DocumentSegments
                                           [] OTHER -> FurtherSegments)} : n \in 0..MaxSegs}

OrdererUrls == {Undefined, "", "https://o"}

DeltaStorageUrls == {UndefinedUrl, EmptyUrl} \cup {Url(<<"t1", d>>) : d \in {"new", "d1"}}

\* The resolved locators a caller may pass; id is the provisional document id.
Locators == {[pathname |-> p, id |-> (IF Len(p) >= 2 THEN p[2] ELSE Undefined),
              ordererUrl |-> o, deltaStorageUrl |-> d] :
                 p \in Pathnames, o \in OrdererUrls, d \in DeltaStorageUrls}

\* The creation summaries a caller may pass: undefined, or a tree with or
\* without its ".protocol" and ".app" subtrees.
Summaries == {UndefinedSummary} \cup [defined : {TRUE}, protocol : BOOLEAN, app : BOOLEAN]

\* The document ids the backend may answer a create request with.
BackendIds == {"abc123", "d1"}

\* const [, tenantId, documentId] = pathname.split("/")
Segment(p, k) == IF Len(p) >= k THEN p[k] ELSE Undefined

idSentLiterally(newDocumentId) == newDocumentId

\* const id = newDocumentId !== "new" ? newDocumentId : undefined
idOfRequest(newDocumentId) == IF newDocumentId # "new" THEN newDocumentId ELSE Undefined

\* The path with its document-id segment replaced by documentId.
replaceDocumentIdInPath(p, documentId) ==
    [k \in 1..(IF Len(p) >= 2 THEN Len(p) ELSE 2) |->
        IF k = 2 THEN documentId ELSE IF k <= Len(p) THEN p[k] ELSE ""]

endpointsMissingOnlyOrderer(loc) == Falsy(loc.ordererUrl)

\* if (!ordererUrl || !deltaStorageUrl)
endpointsMissing(loc) == Falsy(loc.ordererUrl) \/ FalsyUrl(loc.deltaStorageUrl)

idsMissingOnlyTenant(loc) == Falsy(Segment(loc.pathname, 1))

\* if (!documentId || !tenantId)
idsMissing(loc) == Falsy(Segment(loc.pathname, 2)) \/ Falsy(Segment(loc.pathname, 1))

newDocumentServiceWithDefaults(loc) ==
    [resolvedUrl |-> loc, ordererUrl |-> loc.ordererUrl, deltaStorageUrl |-> loc.deltaStorageUrl,
     tenantId |-> Segment(loc.pathname, 1), documentId |-> Segment(loc.pathname, 2),
     driverPolicies |-> [maxConcurrentStorageRequests |-> defaultMaxConcurrentStorageRequests,
                         maxConcurrentOrdererRequests |-> defaultMaxConcurrentOrdererRequests]]

\* new DocumentService(fluidResolvedUrl, ordererUrl, deltaStorageUrl, ..., tenantId, documentId, driverPolicies)
newDocumentService(loc) ==
    [resolvedUrl |-> loc, ordererUrl |-> loc.ordererUrl, deltaStorageUrl |-> loc.deltaStorageUrl,
     tenantId |-> Segment(loc.pathname, 1), documentId |-> Segment(loc.pathname, 2),
     driverPolicies |-> driverPolicies]

\* What createDocumentService(loc) settles with: an error, or the service.
createDocumentServiceResult(loc) ==
    IF endpointsMissing(loc) THEN [error |-> "endpoints", names |-> {"ordererUrl", "deltaStorageUrl"},
                                  service |-> {}]
    ELSE IF idsMissing(loc) THEN [error |-> "parse", names |-> {"documentId", "tenantId"},
                                  service |-> {}]
    ELSE [error |-> "none", names |-> {}, service |-> {newDocumentService(loc)}]

\* createDocumentService called by the runtime: it has no suspension point.
createDocumentService(loc) ==
    /\ driverPolicies.maxConcurrentOrdererRequests # 0
    /\ cc.pc \in {"idle", "returned", "failed", "attached"} /\ nInv < MaxInv
    /\ nInv' = nInv + 1
    /\ LET r == createDocumentServiceResult(loc) IN
         cc' = [IdleCall EXCEPT !.op = "createDocumentService", !.locator = loc,
                                !.pc = IF r.error = "none" THEN "returned" ELSE "failed",
                                !.error = r.error, !.names = r.names, !.service = r.service]
    /\ UNCHANGED <<extVars, svcVars, rlVars, ovVars, limVars, backendDocs>>

summaryIncompleteNever(sum) == FALSE

\* if (!(protocolSummary && appSummary))
summaryIncomplete(sum) == ~(sum.protocol /\ sum.app)

\* The error createContainer throws before its first await, or "none".
createContainerPrecondition(sum, loc) ==
    IF ~sum.defined THEN "assert0x204"
    ELSE IF Falsy(loc.ordererUrl) THEN "assert0x0b2"
    ELSE IF loc.pathname = <<>> THEN "noPathname"
    ELSE IF summaryIncomplete(sum) THEN "missingSummary"
    ELSE "none"

\* createContainer up to "await RouterliciousOrdererRestWrapper.load(...)",
\* which asks the token provider for the orderer token.
createContainer(sum, loc) ==
    /\ driverPolicies.maxConcurrentOrdererRequests # 0
    /\ cc.pc \in {"idle", "returned", "failed", "attached"} /\ nInv < MaxInv
    /\ nInv' = nInv + 1
    /\ LET e == createContainerPrecondition(sum, loc) IN
         cc' = IF e # "none"
               THEN [IdleCall EXCEPT !.op = "createContainer", !.summary = sum, !.locator = loc,
                                     !.pc = "failed", !.error = e]
               ELSE [IdleCall EXCEPT !.op = "createContainer", !.summary = sum, !.locator = loc,
                                     !.pc = "awaitLoad", !.tokenRequests = 1]
    /\ UNCHANGED <<extVars, svcVars, rlVars, ovVars, limVars, backendDocs>>

postResent(requests, body) == Append(Append(requests, body), body)

\* ordererRestWrapper.post(`/documents/${tenantId}`, { id, ... })
post(requests, body) == Append(requests, body)

\* The rest wrapper is loaded: the create-document request is posted through
\* the call's own limiter, which admits it at once.
loadResolves ==
    /\ cc.pc = "awaitLoad"
    /\ cc' = [cc EXCEPT !.pc = "awaitPost", !.limiterRunning = 1,
                        !.requests = post(@, [tenantId |-> Segment(cc.locator.pathname, 1),
                                              id |-> idOfRequest(Segment(cc.locator.pathname, 2))])]
    /\ UNCHANGED <<extVars, svcVars, rlVars, ovVars, limVars, nInv, backendDocs>>

loadRejects ==
    /\ cc.pc = "awaitLoad"
    /\ cc' = [cc EXCEPT !.pc = "failed", !.error = "load"]
    /\ UNCHANGED <<extVars, svcVars, rlVars, ovVars, limVars, nInv, backendDocs>>

locatorKeepsProvisionalId(loc, documentId) ==
    [pathname |-> replaceDocumentIdInPath(loc.pathname, documentId),
     id |-> loc.id,
     ordererUrl |-> loc.ordererUrl,
     deltaStorageUrl |-> Url(replaceDocumentIdInPath(loc.deltaStorageUrl.pathname, documentId))]

\* { ...resolvedUrl, url: parsedUrl.toString(), id: documentId,
\*   endpoints: { ...resolvedUrl.endpoints, deltaStorageUrl: parsedDeltaStorageUrl.toString() } }
correctedLocator(loc, documentId) ==
    [pathname |-> replaceDocumentIdInPath(loc.pathname, documentId),
     id |-> documentId,
     ordererUrl |-> loc.ordererUrl,
     deltaStorageUrl |-> Url(replaceDocumentIdInPath(loc.deltaStorageUrl.pathname, documentId))]

\* The backend has created the document and answers with its id: the locator
\* is corrected and handed to createDocumentService.
postResolves(documentId) ==
    /\ cc.pc = "awaitPost"
    /\ backendDocs' = backendDocs + 1
    /\ cc' = IF FalsyUrl(cc.locator.deltaStorageUrl)
             THEN [cc EXCEPT !.pc = "failed", !.error = "endpoints", !.names = {"deltaStorageUrl"},
                             !.limiterRunning = 0, !.documentId = documentId]
             ELSE LET r == createDocumentServiceResult(correctedLocator(cc.locator, documentId)) IN
                  [cc EXCEPT !.pc = IF r.error = "none" THEN "returned" ELSE "failed",
                             !.error = r.error, !.names = r.names, !.service = r.service,
                             !.limiterRunning = 0, !.documentId = documentId]
    /\ UNCHANGED <<extVars, svcVars, rlVars, ovVars, limVars, nInv>>

afterPostRejectedRetried(c) ==
    IF Len(c.requests) < 2
    THEN [c EXCEPT !.requests = post(@, @[Len(@)])]
    ELSE [c EXCEPT !.pc = "failed", !.error = "post", !.limiterRunning = 0]

\* "await rateLimiter.schedule(async () => ordererRestWrapper.post(...))" is
\* in no try block: its rejection leaves createContainer at once, the limiter
\* having released the slot.
afterPostRejected(c) == [c EXCEPT !.pc = "failed", !.error = "post", !.limiterRunning = 0]

\* The backend rejects the create-document request.
postRejects ==
    /\ cc.pc = "awaitPost"
    /\ cc' = afterPostRejected(cc)
    /\ UNCHANGED <<extVars, svcVars, rlVars, ovVars, limVars, nInv, backendDocs>>

\* The factory is built with the defaults or with the orderer maximum overridden.
FactoryOverrides == {ov \in Overrides : /\ ov.maxConcurrentStorageRequests = 0
                                       /\ ov.maxConcurrentOrdererRequests \in {0, 1}}

\* The locator the container holds after container.attach(request): the one
\* the Document Service returned by createContainer is bound to.
containerResolvedUrl(svc) == svc.resolvedUrl

attachResultOfRequest(resolved) == cc.locator.id

\* const resolved = container.resolvedUrl; ...; return resolved.id
attachResult(resolved) == resolved.id

\* AzureClient's attach(): container.attach(request) has had the factory
\* create the container, and attach returns the id of the container's locator.
attachReturns ==
    /\ cc.op = "createContainer" /\ cc.pc = "returned"
    /\ \E svc \in cc.service :
          cc' = [cc EXCEPT !.pc = "attached",
                           !.attachedId = attachResult(containerResolvedUrl(svc))]
    /\ UNCHANGED <<extVars, svcVars, rlVars, ovVars, limVars, nInv, backendDocs>>

NextFactory ==
    \/ \E ov \in FactoryOverrides : FactoryConstructor(ov)
    \/ \E sum \in Summaries, loc \in Locators : createContainer(sum, loc)
    \/ \E loc \in Locators : createDocumentService(loc)
    \/ loadResolves
    \/ loadRejects
    \/ \E documentId \in BackendIds : postResolves(documentId)
    \/ postRejects
    \/ attachReturns

SpecFactory == Init /\ [][NextFactory]_vars

(***************************************************************************)
(* createContainer calls that overlap on one factory.  Every call here has *)
(* a full summary and a well-formed locator, so it reaches its first       *)
(* await; the calls share the factory's policies and nothing else.         *)
(***************************************************************************)

\* const rateLimiter = new RateLimiter(this.driverPolicies.maxConcurrentOrdererRequests)
\* is evaluated by every call: the call gets a limiter of its own.
createContainerBegins(i) ==
    /\ driverPolicies.maxConcurrentOrdererRequests # 0
    /\ calls[i].pc = "idle"
    /\ calls' = [calls EXCEPT ![i] = [pc |-> "awaitLoad",
                                      limiterCapacity |-> rateLimiterCapacity,
                                      limiterRunning |-> 0]]
    /\ UNCHANGED <<extVars, svcVars, rlVars, facVars, limVars>>

\* The rest wrapper of call i is loaded and the call posts its create-document
\* request through its limiter, which runs it when it has a free slot.
postThroughLimiter(i) ==
    /\ calls[i].pc = "awaitLoad"
    /\ calls' = [calls EXCEPT ![i] =
                    IF calls[i].limiterRunning < calls[i].limiterCapacity
                    THEN [@ EXCEPT !.pc = "awaitPost", !.limiterRunning = @ + 1]
                    ELSE [@ EXCEPT !.pc = "queued"]]
    /\ UNCHANGED <<extVars, svcVars, rlVars, facVars, limVars>>

loadRejectsFor(i) ==
    /\ calls[i].pc = "awaitLoad"
    /\ calls' = [calls EXCEPT ![i] = [@ EXCEPT !.pc = "failed"]]
    /\ UNCHANGED <<extVars, svcVars, rlVars, facVars, limVars>>

\* The create-document request of call i settles and leaves the limiter.
postSettlesFor(i, ok) ==
    /\ calls[i].pc = "awaitPost"
    /\ calls' = [calls EXCEPT ![i] = [@ EXCEPT !.pc = IF ok THEN "returned" ELSE "failed",
                                              !.limiterRunning = @ - 1]]
    /\ UNCHANGED <<extVars, svcVars, rlVars, facVars, limVars>>

NextOverlap ==
    \/ \E ov \in FactoryOverrides : FactoryConstructor(ov)
    \/ \E i \in OverlapIds : createContainerBegins(i)
    \/ \E i \in OverlapIds : postThroughLimiter(i)
    \/ \E i \in OverlapIds : loadRejectsFor(i)
    \/ \E i \in OverlapIds, ok \in BOOLEAN : postSettlesFor(i, ok)

SpecOverlap == Init /\ [][NextOverlap]_vars

(***************************************************************************)
(* The storage limiter and the orderer limiter of one factory, side by     *)
(* side.  A limiter is held as its two counts: units running and units     *)
(* waiting in its queue.                                                   *)
(***************************************************************************)

\* The maximum each limiter is built with.
limiterMaximum(c) ==
    IF c = "storage" THEN driverPolicies.maxConcurrentStorageRequests
    ELSE rateLimiterCapacity

limiterOfShared(c) == "storage"

\* The limiter a unit of backend class c goes through: one instance per class.
limiterOf(c) == c

\* A unit of class c is submitted: it runs at once when its limiter has a
\* free slot, and else waits in that limiter's queue.
submitTo(c) ==
    /\ driverPolicies.maxConcurrentOrdererRequests # 0
    /\ submitted[c] < MaxSubmitted
    /\ submitted' = [submitted EXCEPT ![c] = @ + 1]
    /\ lim' = [lim EXCEPT ![limiterOf(c)] =
                  IF @.running < limiterMaximum(limiterOf(c))
                  THEN [@ EXCEPT !.running = @ + 1]
                  ELSE [@ EXCEPT !.queued = @ + 1]]
    /\ UNCHANGED <<extVars, svcVars, rlVars, facVars, ovVars>>

\* A running unit of the limiter of class c settles: the head of the queue
\* takes its slot, or the slot is freed.
unitSettles(c) ==
    /\ lim[c].running > 0
    /\ lim' = [lim EXCEPT ![c] = IF @.queued > 0 THEN [@ EXCEPT !.queued = @ - 1]
                                 ELSE [@ EXCEPT !.running = @ - 1]]
    /\ UNCHANGED <<extVars, svcVars, rlVars, facVars, ovVars, submitted>>

NextLimiters ==
    \/ \E ov \in Overrides : FactoryConstructor(ov)
    \/ \E c \in Classes : submitTo(c)
    \/ \E c \in Classes : unitSettles(c)

SpecLimiters == Init /\ [][NextLimiters]_vars

(***************************************************************************)
(* The editor: Editor.delete on backspace and delete                       *)
(***************************************************************************)

Directions == {"left", "right"}

\* getDeltaX of @prague/flow-util: the horizontal step of a direction.
getDeltaX(direction) == IF direction = "left" THEN -1 ELSE 1

\* The selections the caret can hold in a document of the given length: an
\* ordered pair of positions of the document.
Selections(length) ==
    {sel \in [start : 0..length, end : 0..length] : sel.start <= sel.end}

removeStartUnclamped(start, end, dx) == IF start = end /\ dx < 0 THEN start - 1 ELSE start

\* if (start === end) { if (dx < 0) { start--; } ... }  Math.max(0, start)
removeStart(start, end, dx) ==
    LET s == IF start = end /\ dx < 0 THEN start - 1 ELSE start
    IN  IF s < 0 THEN 0 ELSE s

\* if (start === end) { if (dx < 0) ... else { end++; } }  Math.min(end, doc.length)
removeEnd(start, end, dx, length) ==
    LET e == IF start = end /\ ~(dx < 0) THEN end + 1 ELSE end
    IN  IF e < length THEN e ELSE length

\* Editor.delete(e, direction): backspace passes Direction.left and delete
\* Direction.right.  doc.remove takes the range out of the document and the
\* caret collapses onto the place of the removal.
delete(direction) ==
    /\ direction \in Directions
    /\ LET start == selection.start
           end == selection.end
           dx == getDeltaX(direction)
           a == removeStart(start, end, dx)
           b == removeEnd(start, end, dx, docLength)
       IN  /\ removeCall' = [direction |-> direction, start |-> start, end |-> end,
                             length |-> docLength, a |-> a, b |-> b]
           /\ docLength' = IF a < b THEN docLength - (b - a) ELSE docLength
           /\ selection' = [start |-> IF a < docLength' THEN a ELSE docLength',
                            end |-> IF a < docLength' THEN a ELSE docLength']
    /\ UNCHANGED <<baseVars, mgVars, azVars>>

\* Editor.insertText: the key's text is inserted at a collapsed selection or
\* replaces the selected range, and the caret collapses behind it.
insertText ==
    /\ docLength - (selection.end - selection.start) < MaxLength
    /\ docLength' = docLength - (selection.end - selection.start) + 1
    /\ selection' = [start |-> selection.start + 1, end |-> selection.start + 1]
    /\ UNCHANGED <<removeCall, baseVars, mgVars, azVars>>

\* The user moves the caret or extends the selection.
caretMoves(sel) ==
    /\ sel \in Selections(docLength) /\ sel # selection
    /\ selection' = sel
    /\ UNCHANGED <<docLength, removeCall, baseVars, mgVars, azVars>>

NextEditor ==
    \/ \E direction \in Directions : delete(direction)
    \/ insertText
    \/ \E sel \in Selections(docLength) : caretMoves(sel)

SpecEditor == Init /\ [][NextEditor]_vars

\* The last doc.remove call was made by backspace / delete with a collapsed
\* selection / with a range selected.
Deleted == removeCall.direction # "none"
Collapsed == removeCall.start = removeCall.end

\* C37: Editor.delete always calls doc.remove(a, b) with
\* 0 <= a <= b <= doc.length.  With a collapsed selection it removes exactly
\* the one position before the caret (backspace) or after it (delete), and
\* at the start of the document (backspace) or at its end (delete) it
\* removes the empty range; with a non-empty selection it removes exactly
\* the selected range.
C37_DeleteRemovesWithinDocument ==
    Deleted =>
        /\ 0 <= removeCall.a /\ removeCall.a <= removeCall.b /\ removeCall.b <= removeCall.length
        /\ (Collapsed /\ removeCall.direction = "left")
              => IF removeCall.start = 0
                 THEN removeCall.a = 0 /\ removeCall.b = 0
                 ELSE removeCall.a = removeCall.start - 1 /\ removeCall.b = removeCall.start
        /\ (Collapsed /\ removeCall.direction = "right")
              => IF removeCall.end = removeCall.length
                 THEN removeCall.a = removeCall.length /\ removeCall.b = removeCall.length
                 ELSE removeCall.a = removeCall.end /\ removeCall.b = removeCall.end + 1
        /\ ~Collapsed => removeCall.a = removeCall.start /\ removeCall.b = removeCall.end

\* Backspace at the start of a document that is not empty removed the empty
\* range.
C37_Witness ==
    /\ Deleted /\ Collapsed /\ removeCall.direction = "left"
    /\ removeCall.start = 0 /\ removeCall.length > 0
    /\ removeCall.a = 0 /\ removeCall.b = 0

(***************************************************************************)
(* mochaGlobalSetup: the installs of the legacy versions                   *)
(***************************************************************************)

InstallIds == 1..MaxVersions

observedFirst(error, k, rejected) == IF rejected /\ error = 0 THEN k ELSE error

\* try { await p; } catch (e) { error = e; }
observed(error, k, rejected) == IF rejected THEN k ELSE error

\* mochaGlobalSetup up to its first await.  With no version it returns at
\* once; else the map starts one install per version, all before the loop,
\* and the loop awaits the first.
mochaGlobalSetup(n) ==
    /\ setup.pc = "idle"
    /\ IF n = 0
       THEN /\ setup' = [setup EXCEPT !.pc = "returned"]
            /\ UNCHANGED installP
       ELSE /\ installP' = [i \in InstallIds |-> IF i <= n THEN "pending" ELSE "none"]
            /\ setup' = [setup EXCEPT !.pc = "awaiting", !.n = n, !.k = 1]
    /\ UNCHANGED <<baseVars, edVars, azVars>>

\* ensurePackageInstalled settles for version i.
installSucceeds(i) ==
    /\ installP[i] = "pending"
    /\ installP' = [installP EXCEPT ![i] = "fulfilled"]
    /\ UNCHANGED <<setup, baseVars, edVars, azVars>>

installFails(i) ==
    /\ installP[i] = "pending"
    /\ installP' = [installP EXCEPT ![i] = "rejected"]
    /\ setup' = [setup EXCEPT !.failedEarly = @ \/ (setup.pc = "awaiting" /\ setup.k < i)]
    /\ UNCHANGED <<baseVars, edVars, azVars>>

\* "await p" completes for the install the loop is at: a rejection is caught
\* and kept in error.  The loop goes on to the next install, or ends and the
\* function throws the error kept, if any, and returns otherwise.
awaitCompletes ==
    /\ setup.pc = "awaiting"
    /\ installP[setup.k] \in {"fulfilled", "rejected"}
    /\ LET e == observed(setup.error, setup.k, installP[setup.k] = "rejected") IN
         setup' = IF setup.k < setup.n
                  THEN [setup EXCEPT !.k = @ + 1, !.error = e]
                  ELSE [setup EXCEPT !.error = e, !.pc = IF e # 0 THEN "threw" ELSE "returned"]
    /\ UNCHANGED <<installP, baseVars, edVars, azVars>>

NextSetup ==
    \/ \E n \in 0..MaxVersions : mochaGlobalSetup(n)
    \/ \E i \in InstallIds : installSucceeds(i)
    \/ \E i \in InstallIds : installFails(i)
    \/ awaitCompletes

SpecSetup == Init /\ [][NextSetup]_vars

\* The installs mochaGlobalSetup started, and those of them that failed.
Started == {i \in InstallIds : installP[i] # "none"}
Failed == {i \in InstallIds : installP[i] = "rejected"}
SetupSettled == setup.pc \in {"returned", "threw"}

\* C36: mochaGlobalSetup does not return or throw until every install it
\* started has settled, even when one of them fails early; if any install
\* failed it then rejects with the error of the failed install that is last
\* in iteration order, and if none failed it returns normally.
C36_SetupWaitsForEveryInstall ==
    /\ Started = 1..setup.n
    /\ SetupSettled
         => /\ \A i \in Started : installP[i] \in {"fulfilled", "rejected"}
            /\ (setup.pc = "threw") = (Failed # {})
            /\ setup.pc = "threw" => (setup.error \in Failed /\ \A i \in Failed : i <= setup.error)

\* Two installs failed, one of them before the loop reached it;
\* mochaGlobalSetup threw the error of the later one after all had settled.
C36_Witness ==
    /\ setup.pc = "threw" /\ setup.failedEarly
    /\ Cardinality(Failed) = 2
    /\ \E i \in Started : installP[i] = "fulfilled"

(***************************************************************************)
(* SinglePromise on its own, wrapping any fn: () => Promise<T>             *)
(***************************************************************************)

\* A read of SinglePromise.response by any reader.
readResponse(ret) ==
    /\ handed[ret] < MaxReads
    /\ response(ret)
    /\ UNCHANGED <<fnResult, constructed, websocketEndpointP, attemptedDeltaStreamConnection,
                   nOps, ops, rlVars, facVars, ovVars, limVars, extVars>>

\* A read of SinglePromise.response in which fn() throws before it returns a
\* promise: "this.active = true" has run, the assignment to pResponse has
\* not, and the getter throws.
responseThrows ==
    /\ ~responseCached
    /\ fnCalls < MaxCalls
    /\ active' = activeOnStart
    /\ fnCalls' = fnCalls + 1
    /\ fnState' = [fnState EXCEPT ![fnCalls + 1] = "threw"]
    /\ UNCHANGED <<pResponse, chain, handed, fnResult, constructed, websocketEndpointP,
                   attemptedDeltaStreamConnection, nOps, ops, rlVars, facVars, ovVars, limVars, extVars>>

NextCoalescer ==
    \/ \E ret \in Calls : readResponse(ret)
    \/ responseThrows
    \/ \E i \in Calls, v \in Versions : getSocketStorageDiscoveryResolves(i, v)
    \/ \E i \in Calls : getSocketStorageDiscoveryRejects(i)
    \/ \E i \in Calls : thenHandler(i)
    \/ \E i \in Calls : catchHandler(i)
    \/ \E i \in Calls : pResponseSettles(i)

SpecCoalescer == Init /\ [][NextCoalescer]_vars

(***************************************************************************)
(* AzureClient: createContainer and attach() of the container it returns   *)
(***************************************************************************)

ContainerIds == 1..MaxContainers
AttachIds == 1..MaxAttach

\* AzureClient.createContainer returns a container that is detached.
AzureCreateContainer(c) ==
    /\ containers[c].attachState = "none"
    /\ \A d \in ContainerIds : d < c => containers[d].attachState # "none"
    /\ containers' = [containers EXCEPT ![c].attachState = "Detached"]
    /\ UNCHANGED <<baseVars, edVars, mgVars>>

attachProceedsUnlessAttached(state) == state # "Attached"

\* if (this.attachState !== AttachState.Detached) { throw ... }
attachProceeds(state) == state = "Detached"

\* Container.attach up to its first await: the container leaves the detached
\* state before anything is sent.
containerAttachBegins(state) == "Attaching"

\* attach() up to its first await.  Outside the detached state it throws;
\* else it calls container.attach with the create-new request.
attach(c, i) ==
    /\ containers[c].attachState # "none"
    /\ i = containers[c].nCalls + 1
    /\ containers' = [containers EXCEPT ![c] =
          IF attachProceeds(containers[c].attachState)
          THEN [@ EXCEPT !.nCalls = i, !.attach[i] = [pc |-> "awaitResolve", error |-> "none"],
                         !.attachState = containerAttachBegins(@)]
          ELSE [@ EXCEPT !.nCalls = i, !.attach[i] = [pc |-> "failed", error |-> "notDetached"]]]
    /\ UNCHANGED <<baseVars, edVars, mgVars>>

\* container.attach has resolved the create-new request and has the factory
\* send the create-document request.
createRequested(c, i) ==
    /\ containers[c].attach[i].pc = "awaitResolve"
    /\ containers' = [containers EXCEPT ![c].attach[i].pc = "awaitCreate",
                                        ![c].createRequests = @ + 1]
    /\ UNCHANGED <<baseVars, edVars, mgVars>>

\* The backend created the document: the container is attached and attach()
\* returns the id of its locator.
attachSucceeds(c, i) ==
    /\ containers[c].attach[i].pc = "awaitCreate"
    /\ containers' = [containers EXCEPT ![c].attach[i].pc = "returned",
                                        ![c].attachState = "Attached"]
    /\ UNCHANGED <<baseVars, edVars, mgVars>>

\* The create-document request failed: container.attach rejects, and so does
\* attach(); the container does not go back to the detached state.
attachFails(c, i) ==
    /\ containers[c].attach[i].pc = "awaitCreate"
    /\ containers' = [containers EXCEPT ![c].attach[i] = [pc |-> "failed", error |-> "create"]]
    /\ UNCHANGED <<baseVars, edVars, mgVars>>

NextAttach ==
    \/ \E c \in ContainerIds : AzureCreateContainer(c)
    \/ \E c \in ContainerIds, i \in AttachIds : attach(c, i)
    \/ \E c \in ContainerIds, i \in AttachIds : createRequested(c, i)
    \/ \E c \in ContainerIds, i \in AttachIds : attachSucceeds(c, i)
    \/ \E c \in ContainerIds, i \in AttachIds : attachFails(c, i)

SpecAttach == Init /\ [][NextAttach]_vars

\* An attach() call on container c begins in this step.
AttachBegins(c) == containers'[c].nCalls = containers[c].nCalls + 1

\* The attach() calls on container c that went past the test of the state.
Proceeded(c) == {i \in AttachIds : containers[c].attach[i].pc \in {"awaitResolve", "awaitCreate", "returned"}
                                   \/ containers[c].attach[i].error = "create"}

IsCreateContainer == cc.op = "createContainer"

IsCreateDocumentService == cc.op = "createDocumentService"

\* The call has issued no network call and constructed no Document Service.
NoNetworkNoService == cc.tokenRequests = 0 /\ cc.requests = <<>> /\ cc.service = {}

\* The summary is a tree without its protocol subtree or without its app subtree.
LacksSubtree(sum) == sum.defined /\ (~sum.protocol \/ ~sum.app)

\* The endpoint fields of a locator that are missing or empty.
MissingEndpoints(loc) ==
    {f \in {"ordererUrl"} : loc.ordererUrl \in {Undefined, ""}}
        \cup {f \in {"deltaStorageUrl"} : loc.deltaStorageUrl.form \in {"undefined", "empty"}}

\* The tenant id or the document id of the path is missing or empty.
IdsEmpty(p) == Len(p) < 2 \/ p[1] = "" \/ p[2] = ""

(***************************************************************************)
(* Claims                                                                  *)
(***************************************************************************)

\* C11 (as stated): createContainer with a summary that lacks the protocol or
\* the app subtree fails with the 'missing summary' error and issues no token
\* request, no create-document request and constructs no Document Service.
C11_FailsWithMissingSummary ==
    (IsCreateContainer /\ LacksSubtree(cc.summary))
        => (cc.pc = "failed" /\ cc.error = "missingSummary" /\ NoNetworkNoService)

\* C11 (amended): createContainer with a summary that lacks the protocol or
\* the app subtree fails before any network call and constructs no Document
\* Service; the error is the 'missing summary' error when the locator has an
\* orderer endpoint and a non-empty path, and otherwise the error of the
\* earlier check (missing orderer endpoint, then empty path).
C11_FailsBeforeAnyNetworkCall ==
    (IsCreateContainer /\ LacksSubtree(cc.summary))
        => /\ cc.pc = "failed"
           /\ NoNetworkNoService
           /\ cc.documentId = Undefined
           /\ cc.error = (IF cc.locator.ordererUrl \in {Undefined, ""} THEN "assert0x0b2"
                          ELSE IF cc.locator.pathname = <<>> THEN "noPathname"
                          ELSE "missingSummary")

C11_Witness ==
    /\ IsCreateContainer /\ cc.summary.defined /\ ~cc.summary.protocol /\ cc.summary.app
    /\ cc.locator.ordererUrl = "https://o" /\ cc.locator.pathname = <<"t1", "new">>
    /\ cc.pc = "failed" /\ cc.error = "missingSummary"

\* C12: a createContainer call issues at most one create-document request,
\* exactly one when it returns a Document Service, and the backend creates at
\* most one document for it; createDocumentService issues none.
C12_AtMostOneCreateRequest ==
    /\ [](/\ Len(cc.requests) <= 1
          /\ (IsCreateContainer /\ cc.pc = "returned") => Len(cc.requests) = 1
          /\ IsCreateDocumentService => cc.requests = <<>>)
    /\ [][backendDocs' # backendDocs =>
             (backendDocs' = backendDocs + 1 /\ cc.pc = "awaitPost" /\ cc'.pc # "awaitPost")]_vars

C12_Witness ==
    IsCreateContainer /\ cc.pc = "returned" /\ Len(cc.requests) = 1 /\ backendDocs = MaxInv

\* C13: when the document-id segment of the path is "new" the create-document
\* request carries no id; any other value of the segment is sent unchanged.
C13_SentinelSendsNoId ==
    (IsCreateContainer /\ cc.requests # <<>>)
        => LET segment == IF Len(cc.locator.pathname) >= 2 THEN cc.locator.pathname[2]
                          ELSE Undefined
           IN  /\ segment = "new" => cc.requests[1].id = Undefined
               /\ segment # "new" => cc.requests[1].id = segment

C13_Witness ==
    /\ IsCreateContainer /\ cc.locator.pathname = <<"t1", "new">>
    /\ cc.requests = <<[tenantId |-> "t1", id |-> Undefined]>>

\* C14: the Document Service createContainer returns is bound to a locator
\* whose id field, path and delta-storage URL carry the id the backend
\* returned in place of the provisional id.
C14_ServiceCarriesBackendId ==
    (IsCreateContainer /\ cc.pc = "returned")
        => \A svc \in cc.service :
              /\ svc.resolvedUrl.id = cc.documentId
              /\ svc.resolvedUrl.pathname[2] = cc.documentId
              /\ svc.resolvedUrl.deltaStorageUrl.pathname[2] = cc.documentId
              /\ svc.deltaStorageUrl = svc.resolvedUrl.deltaStorageUrl
              /\ svc.documentId = cc.documentId
              /\ svc.resolvedUrl.pathname[1] = cc.locator.pathname[1]
              /\ svc.resolvedUrl.deltaStorageUrl.pathname[1] = cc.locator.deltaStorageUrl.pathname[1]

C14_Witness ==
    /\ IsCreateContainer /\ cc.pc = "returned"
    /\ cc.locator.id = "new" /\ cc.locator.deltaStorageUrl = Url(<<"t1", "new">>)
    /\ cc.documentId = "abc123"
    /\ \E svc \in cc.service : svc.resolvedUrl.id = "abc123"

\* C15 (as stated): createContainer with a locator that has an orderer
\* endpoint but a missing or empty delta-storage endpoint fails before any
\* network call: no create-document request is sent and no document is created.
C15_DeltaStorageCheckedBeforeNetwork ==
    (IsCreateContainer /\ cc.locator.ordererUrl = "https://o"
                       /\ cc.locator.deltaStorageUrl.form \in {"undefined", "empty"})
        => (cc.pc = "failed" /\ NoNetworkNoService /\ cc.documentId = Undefined)

\* C16: createDocumentService with a missing or empty orderer or delta-storage
\* endpoint fails with the configuration error, whose message names the
\* missing field, constructs no Document Service and makes no backend call.
C16_MissingEndpointFailsFast ==
    (IsCreateDocumentService /\ MissingEndpoints(cc.locator) # {})
        => /\ cc.pc = "failed" /\ cc.error = "endpoints"
           /\ MissingEndpoints(cc.locator) \subseteq cc.names
           /\ NoNetworkNoService

C16_Witness ==
    /\ IsCreateDocumentService /\ cc.locator.ordererUrl = "https://o"
    /\ cc.locator.deltaStorageUrl = EmptyUrl /\ cc.locator.pathname = <<"t1", "d1">>
    /\ cc.pc = "failed" /\ cc.error = "endpoints" /\ "deltaStorageUrl" \in cc.names

\* C17 (as stated): createDocumentService returns a service only when tenant
\* id and document id are non-empty, bound to those ids; when either is empty
\* it fails with a parse error; it makes no network call.
C17_EmptyIdIsParseError ==
    IsCreateDocumentService
        => /\ cc.service # {} => ~IdsEmpty(cc.locator.pathname)
           /\ \A svc \in cc.service : /\ svc.tenantId = cc.locator.pathname[1]
                                     /\ svc.documentId = cc.locator.pathname[2]
           /\ IdsEmpty(cc.locator.pathname) => (cc.pc = "failed" /\ cc.error = "parse")
           /\ cc.tokenRequests = 0 /\ cc.requests = <<>>

\* C17 (amended): createDocumentService returns a service only when tenant id
\* and document id are non-empty, bound to those ids; when either is empty
\* and both endpoints are present it fails with a parse error (with an
\* endpoint missing it fails with the configuration error instead); it makes
\* no network call.
C17_ServiceOnlyWithBothIds ==
    IsCreateDocumentService
        => /\ cc.service # {} => ~IdsEmpty(cc.locator.pathname)
           /\ \A svc \in cc.service : /\ svc.tenantId = cc.locator.pathname[1]
                                     /\ svc.documentId = cc.locator.pathname[2]
           /\ IdsEmpty(cc.locator.pathname)
                 => /\ cc.pc = "failed"
                    /\ cc.error = (IF MissingEndpoints(cc.locator) = {} THEN "parse" ELSE "endpoints")
           /\ cc.tokenRequests = 0 /\ cc.requests = <<>>

C17_Witness ==
    /\ IsCreateDocumentService /\ MissingEndpoints(cc.locator) = {}
    /\ cc.locator.pathname = <<"t1", "">>
    /\ cc.pc = "failed" /\ cc.error = "parse"

\* C21 (as stated): the createContainer calls of one factory share one
\* orderer limiter: the create-document requests executing at the same time
\* never exceed the factory's maxConcurrentOrdererRequests.
C21_RequestsWithinOrdererMaximum ==
    Cardinality({i \in OverlapIds : calls[i].pc = "awaitPost"})
        <= driverPolicies.maxConcurrentOrdererRequests

\* C24 (as stated): createContainer with a locator whose path has no tenant
\* segment (the empty path, or a path such as "/" whose tenant id is empty)
\* fails with a parse error and issues no create-document request.  The
\* summary is full and the orderer endpoint present, so that no other check
\* decides the call.
C24_NoTenantIsParseError ==
    (IsCreateContainer /\ cc.summary.defined /\ cc.summary.protocol /\ cc.summary.app
                       /\ cc.locator.ordererUrl = "https://o"
                       /\ (cc.locator.pathname = <<>> \/ cc.locator.pathname[1] = ""))
        => (cc.pc = "failed" /\ cc.error = "noPathname" /\ cc.requests = <<>>)

\* C26: the effective driver policies are fixed at construction, each field
\* the override when one is given and else the default; no later
\* createContainer or createDocumentService call changes them, and every
\* Document Service the factory produces receives these values.
C26_PoliciesFixedAtConstruction ==
    /\ [][driverPolicies' # driverPolicies =>
             /\ driverPolicies.maxConcurrentOrdererRequests = 0
             /\ cc = IdleCall /\ cc' = cc
             /\ \E ov \in Overrides :
                   /\ driverPolicies'.maxConcurrentStorageRequests =
                         (IF ov.maxConcurrentStorageRequests = 0 THEN defaultMaxConcurrentStorageRequests
                          ELSE ov.maxConcurrentStorageRequests)
                   /\ driverPolicies'.maxConcurrentOrdererRequests =
                         (IF ov.maxConcurrentOrdererRequests = 0 THEN defaultMaxConcurrentOrdererRequests
                          ELSE ov.maxConcurrentOrdererRequests)]_vars
    /\ [](\A svc \in cc.service : svc.driverPolicies = driverPolicies)

\* A second call on a factory built with an override returned a service.
C26_Witness ==
    /\ nInv = 2 /\ driverPolicies.maxConcurrentOrdererRequests = 1
    /\ \E svc \in cc.service : svc.driverPolicies.maxConcurrentOrdererRequests = 1

\* C27: attach() on a container made by AzureClient.createContainer returns
\* the document id the backend assigned in the create-document call, the id
\* the factory set on the resolved locator.
C27_AttachReturnsBackendId ==
    cc.pc = "attached"
        => /\ cc.attachedId = cc.documentId
           /\ cc.attachedId \in BackendIds
           /\ \A svc \in cc.service : svc.documentId = cc.attachedId

\* The locator asked for a new document, the backend named it "abc123", and
\* attach returned that name.
C27_Witness ==
    /\ cc.pc = "attached" /\ cc.locator.pathname = <<"t1", "new">>
    /\ cc.requests = <<[tenantId |-> "t1", id |-> Undefined]>>
    /\ cc.attachedId = "abc123"

\* C33: when the backend rejects the create-document request,
\* createContainer rejects with that error, constructs no Document Service
\* and sends no second create request for that invocation.
C33_CreationErrorSurfacedNotRetried ==
    /\ [](cc.error = "post"
            => /\ IsCreateContainer /\ cc.pc = "failed"
               /\ cc.service = {}
               /\ Len(cc.requests) = 1
               /\ cc.documentId = Undefined)
    /\ [][(cc.pc = "awaitPost" /\ cc' # cc /\ backendDocs' = backendDocs)
            => /\ cc'.pc = "failed" /\ cc'.error = "post"
               /\ cc'.requests = cc.requests
               /\ cc'.service = {}]_vars

\* A createContainer call failed with the backend's rejection of its one
\* create-document request; the backend created nothing.
C33_Witness ==
    /\ IsCreateContainer /\ cc.pc = "failed" /\ cc.error = "post"
    /\ Len(cc.requests) = 1 /\ backendDocs = 0

(***************************************************************************)
(* Vocabulary of the claims about the coalescer and the document service   *)
(***************************************************************************)

\* This step read SinglePromise.response and was handed promise i.
ResponseRead(i) == handed'[i] = handed[i] + 1

\* An accessor invocation that reads the endpoint handle begins in this step.
OpBegins == nOps' = nOps + 1 /\ ops'[nOps'].kind \in {"deltaStorage", "deltaStream"}
StreamBegins == OpBegins /\ ops'[nOps'].kind = "deltaStream"

\* Accessor invocation o is past its await of the endpoint handle.
Resumed(o) == /\ ops[o].kind \in {"deltaStorage", "deltaStream"}
              /\ ops[o].pc \in {"awaitToken", "awaitSocket", "returned", "rejected"}
ObservedFailure(o) == ops[o].pc = "rejected" /\ ops[o].err = "discovery"
ObservedValue(o) == Resumed(o) /\ ~ObservedFailure(o)

\* connectToDeltaStream invocation o has called DocumentDeltaConnection.create.
SocketOpened(o) ==
    /\ ops[o].kind = "deltaStream"
    /\ ops[o].pc = "awaitSocket" \/ (ops[o].pc = "returned") \/ (ops[o].pc = "rejected" /\ ops[o].err = "socket")

(***************************************************************************)
(* C1.  While a discovery call wrapped by SinglePromise is pending, a read *)
(* of response starts no further underlying call and hands out the promise *)
(* of the pending call: one call of fn serves all the readers, the number  *)
(* of calls is the number of distinct promises handed out, and all that    *)
(* await one promise observe the same outcome, the same endpoints or the   *)
(* same rejection.                                                         *)
(***************************************************************************)
C1_SingleFlightCoalesces ==
    /\ [][\A i \in Calls :
            (ResponseRead(i) /\ pResponse # 0 /\ fnState[pResponse] = "pending")
                => (i = pResponse /\ fnCalls' = fnCalls /\ InFlight' = InFlight)]_vars
    /\ [](fnCalls = Cardinality({i \in Calls : handed[i] > 0}))
    /\ [](\A o1, o2 \in Ops :
            (Resumed(o1) /\ Resumed(o2) /\ ops[o1].p = ops[o2].p)
                => /\ ObservedFailure(o1) = ObservedFailure(o2)
                   /\ ops[o1].ep = ops[o2].ep)

\* Three reads were served by one call, and two of its awaiters have resumed.
C1_Witness ==
    \E i \in Calls :
        /\ handed[i] >= 3
        /\ \E o1, o2 \in Ops : o1 # o2 /\ ops[o1].p = i /\ ops[o2].p = i
                               /\ Resumed(o1) /\ Resumed(o2)

(***************************************************************************)
(* C2.  In every reachable state of a document service at most one         *)
(* discovery call has started and not yet settled.                         *)
(***************************************************************************)
C2_AtMostOneInFlight == Cardinality(InFlight) <= 1

\* A second discovery call is in flight while accessor invocations are under way.
C2_Witness ==
    /\ Cardinality(InFlight) = 1 /\ fnCalls >= 2
    /\ \E o1, o2 \in Ops : o1 # o2 /\ ops[o1].pc = "awaitEndpoint" /\ ops[o2].pc = "awaitEndpoint"

C4_NextReaderRetriesDiscovery ==
    [][(OpBegins /\ PRejected(websocketEndpointP))
          => (fnCalls' = fnCalls + 1 /\ ops'[nOps'].p = fnCalls')]_vars

(***************************************************************************)
(* C5.  The first connectToDeltaStream call of a service reads the stored  *)
(* endpoint handle as it is: it does not read response, starts no call and *)
(* leaves the handle alone.  The second and every later call replaces the  *)
(* handle by a read of response before awaiting it.  The flag tells the    *)
(* two apart: it is set exactly when some connectToDeltaStream has begun.  *)
(***************************************************************************)
C5_OnlyReconnectRefreshes ==
    /\ [](attemptedDeltaStreamConnection = (\E o \in Ops : ops[o].kind = "deltaStream"))
    /\ [][StreamBegins =>
            IF \E o \in Ops : ops[o].kind = "deltaStream"
            THEN /\ \E i \in Calls : ResponseRead(i) /\ websocketEndpointP' = i
                 /\ ops'[nOps'].p = websocketEndpointP'
                 /\ ops'[nOps'].reconnect
            ELSE /\ UNCHANGED <<handed, fnCalls, pResponse, active, websocketEndpointP>>
                 /\ ops'[nOps'].p = websocketEndpointP
                 /\ ~ops'[nOps'].reconnect]_vars

\* A first call awaited the constructor's promise and a reconnect after it
\* awaits a newer one.
C5_Witness ==
    \E o1, o2 \in Ops :
        /\ ops[o1].kind = "deltaStream" /\ ~ops[o1].reconnect /\ ops[o1].p = 1
        /\ ops[o2].kind = "deltaStream" /\ ops[o2].reconnect /\ ops[o2].p = 2

(***************************************************************************)
(* C6 as stated.  Every connectToDeltaStream call after the first issues a *)
(* new underlying discovery call as it begins, also when an earlier        *)
(* discovery call is still pending.                                        *)
(***************************************************************************)
C6_EveryReconnectStartsDiscovery ==
    [][(StreamBegins /\ attemptedDeltaStreamConnection)
          => (fnCalls' = fnCalls + 1 /\ ops'[nOps'].p = fnCalls')]_vars

(***************************************************************************)
(* C6 as amended.  A connectToDeltaStream call after the first that begins *)
(* once the previous coalesced result has settled issues a new discovery   *)
(* call as it begins; one that begins while a discovery call is in flight  *)
(* issues none and awaits the pending one.  In both cases the promise it   *)
(* awaits is fixed when it begins, and its socket is opened only with the  *)
(* endpoints that promise resolved with.                                   *)
(***************************************************************************)
C6_ReconnectDiscoversUnlessPending ==
    /\ [][(StreamBegins /\ attemptedDeltaStreamConnection) =>
            /\ PSettled(pResponse) => (fnCalls' = fnCalls + 1 /\ ops'[nOps'].p = fnCalls')
            /\ fnState[pResponse] = "pending"
                 => (fnCalls' = fnCalls /\ ops'[nOps'].p = pResponse)]_vars
    /\ [][\A o \in Ops : ops[o].pc # "idle" => ops'[o].p = ops[o].p]_vars
    /\ [](\A o \in Ops :
            (SocketOpened(o) /\ ops[o].reconnect)
                => (fnState[ops[o].p] = "resolved" /\ ops[o].ep = fnResult[ops[o].p]))

\* A reconnect that began after the first result had settled opened its socket
\* with the second call's endpoints, which differ from the first call's.
C6_Witness ==
    \E o \in Ops :
        /\ SocketOpened(o) /\ ops[o].reconnect /\ ops[o].p = 2
        /\ fnState[1] = "resolved" /\ fnResult[1] # fnResult[2]

\* C18 (as stated): the storage accessor and the delta-storage accessor are
\* idempotent: every repeated call returns the sub-service instance the first
\* call created.
C18_AccessorsReturnSameInstance ==
    \A o1, o2 \in Ops :
        (/\ ops[o1].kind \in {"storage", "deltaStorage"} /\ ops[o2].kind = ops[o1].kind
         /\ ops[o1].pc = "returned" /\ ops[o2].pc = "returned")
            => ops[o1].instance = ops[o2].instance

\* C19: the driver never retries: discovery calls are issued only while a
\* caller's invocation (the constructor or a connectToDeltaStream) begins, one
\* at most; an invocation calls DocumentDeltaConnection.create at most once;
\* and an invocation that rejected or returned does nothing further.
C19_NoInternalRetry ==
    /\ [][fnCalls' # fnCalls =>
             (fnCalls' = fnCalls + 1 /\ (StreamBegins \/ (~constructed /\ constructed')))]_vars
    /\ [](\A o \in Ops : ops[o].sockets <= 1)
    /\ [][\A o \in Ops : ops'[o].sockets # ops[o].sockets =>
             (ops[o].kind = "deltaStream" /\ ops[o].pc = "awaitToken")]_vars
    /\ [][\A o \in Ops : ops[o].pc \in {"rejected", "returned"} => ops'[o] = ops[o]]_vars

\* Three connectToDeltaStream calls failed, at the socket, at discovery and at
\* the token: three discovery calls were made in all (the constructor's and
\* one per reconnect) and one socket was tried.
C19_Witness ==
    /\ fnCalls = 3
    /\ \E o1, o2, o3 \in Ops :
          /\ ops[o1].kind = "deltaStream" /\ ops[o1].pc = "rejected" /\ ops[o1].err = "socket"
          /\ ops[o1].sockets = 1
          /\ ops[o2].kind = "deltaStream" /\ ops[o2].pc = "rejected" /\ ops[o2].err = "discovery"
          /\ ops[o2].sockets = 0
          /\ ops[o3].kind = "deltaStream" /\ ops[o3].pc = "rejected" /\ ops[o3].err = "token"

\* C20: the flag is false at construction, true from the first
\* connectToDeltaStream call on whether it succeeds or fails, never false
\* again, and changed by no other operation or completion.
C20_AttemptedFlagIsSticky ==
    /\ [][(~constructed /\ constructed') => ~attemptedDeltaStreamConnection']_vars
    /\ [][StreamBegins => attemptedDeltaStreamConnection']_vars
    /\ [][attemptedDeltaStreamConnection => attemptedDeltaStreamConnection']_vars
    /\ [][attemptedDeltaStreamConnection' # attemptedDeltaStreamConnection => StreamBegins]_vars
    /\ [](attemptedDeltaStreamConnection <=> \E o \in Ops : ops[o].kind = "deltaStream")

\* The first connectToDeltaStream failed, connectToStorage and
\* connectToDeltaStorage ran after it, and the flag is still true.
C20_Witness ==
    /\ attemptedDeltaStreamConnection
    /\ ops[1].kind = "deltaStream" /\ ops[1].pc = "rejected"
    /\ ops[2].kind = "storage" /\ ops[2].pc = "returned"
    /\ ops[3].kind = "deltaStorage" /\ ops[3].pc \in {"returned", "rejected"}

\* C22: an operation that has read the endpoint handle uses the tenant id,
\* the document id and the stream or delta-storage URL of one and the same
\* discovery result, the one its handle resolved with, also when the handle
\* was refreshed while the operation was suspended.
C22_OneSnapshotPerOperation ==
    \A o \in Ops :
        ops[o].url # 0
            => /\ ops[o].url = fnResult[ops[o].p]
               /\ ops[o].tenantId = ops[o].url /\ ops[o].id = ops[o].url

\* An operation is still suspended, having used its snapshot, and the handle
\* it read has since been replaced and has resolved with other endpoints.
C22_Witness ==
    \E o \in Ops :
        /\ ops[o].pc = "awaitSocket" /\ ops[o].url # 0
        /\ websocketEndpointP # ops[o].p
        /\ fnResult[websocketEndpointP] \notin {0, ops[o].url}
        /\ ops[o].tenantId = ops[o].url

\* C23: a read of response made from a failure handler of the coalesced
\* result (an invocation has observed promise p reject, and its caller reads
\* response again) does not observe the old pending state: the coalescer is
\* no longer active for p, and the read is handed a later call's promise that
\* has not settled, a call it starts itself unless one was started since.
C23_HandlerReadStartsAfresh ==
    /\ [](\A o \in Ops : (ObservedFailure(o) /\ pResponse = ops[o].p) => ~active)
    /\ [][\A o \in Ops, i \in Calls :
            (ObservedFailure(o) /\ ResponseRead(i))
                => /\ i > ops[o].p
                   /\ chain'[i] = "waiting"
                   /\ pResponse = ops[o].p => (i = fnCalls + 1 /\ fnCalls' = i)]_vars

\* An invocation observed the first call's failure, and a reconnect begun
\* afterwards was handed the second call and resumed with its endpoints.
C23_Witness ==
    \E o1, o2 \in Ops :
        /\ ObservedFailure(o1) /\ ops[o1].p = 1
        /\ o2 > o1 /\ ops[o2].reconnect /\ ops[o2].p = 2
        /\ ops[o2].pc = "awaitSocket" /\ ops[o2].url = fnResult[2]

\* C25 (as stated): constructing a Document Service issues no network call.
C25_ConstructionIssuesNoCall ==
    [][(~constructed /\ constructed') => fnCalls' = fnCalls]_vars

\* C25 (amended): constructing a Document Service issues the discovery call,
\* exactly one; connectToStorage, connectToDeltaStorage and the first
\* connectToDeltaStream issue none and the latter two await the constructor's.
C25_ConstructionIssuesDiscovery ==
    /\ [][(~constructed /\ constructed')
             => (fnCalls = 0 /\ fnCalls' = 1 /\ fnState'[1] = "pending"
                 /\ websocketEndpointP' = 1)]_vars
    /\ [][(constructed /\ nOps' = nOps + 1 /\ ~(StreamBegins /\ attemptedDeltaStreamConnection))
             => (fnCalls' = fnCalls /\ ops'[nOps'].p \in {0, websocketEndpointP})]_vars
    /\ []((constructed /\ ~attemptedDeltaStreamConnection)
             => (fnCalls = 1 /\ websocketEndpointP = 1))

\* The service is constructed, no accessor has been used, and the discovery
\* call is in flight.
C25_Witness ==
    constructed /\ nOps = 0 /\ fnCalls = 1 /\ fnState[1] = "pending" /\ websocketEndpointP = 1

\* C28 (as stated): requesting a branch from a Document Service whose backend
\* has no branching fails with a 'not supported' error rather than returning
\* a value.
C28_BranchIsNotSupported ==
    \A o \in Ops :
        ops[o].kind = "branch" => (ops[o].pc = "rejected" /\ ops[o].err = "notSupported")

\* The factory's maximum for backend class c.
MaximumOf(c) ==
    IF c = "storage" THEN driverPolicies.maxConcurrentStorageRequests
    ELSE driverPolicies.maxConcurrentOrdererRequests

\* A unit of class c is submitted in this step.
Submitted(c) == submitted'[c] = submitted[c] + 1

\* C29: the two limiters are independent: a unit submitted while fewer units
\* of its class are running than the class's maximum runs at once, whatever
\* the state of the other limiter; a unit waits only while its own class is
\* at its maximum; and no step of one class changes the other's limiter.
C29_LimitersAreIndependent ==
    /\ [][\A c \in Classes :
            (Submitted(c) /\ lim[c].running < MaximumOf(c))
                => (lim'[c].running = lim[c].running + 1 /\ lim'[c].queued = lim[c].queued)]_vars
    /\ [][\A c, d \in Classes : (Submitted(c) /\ d # c) => lim'[d] = lim[d]]_vars
    /\ [](\A c \in Classes : lim[c].queued > 0 => lim[c].running = MaximumOf(c))

\* The storage limiter is saturated with a unit waiting, and an orderer unit
\* runs with orderer slots to spare and nothing waiting.
C29_Witness ==
    /\ lim["storage"].running = driverPolicies.maxConcurrentStorageRequests
    /\ lim["storage"].queued > 0
    /\ lim["orderer"].running = 1 /\ lim["orderer"].queued = 0
    /\ driverPolicies.maxConcurrentOrdererRequests = 2

\* connectToDeltaStream invocation o has asked for the websocket token.
TokenRequested(o) ==
    \/ ops[o].pc \in {"awaitToken", "awaitSocket"}
    \/ ops[o].token # "none"
    \/ ops[o].err \in {"token", "socket"}

\* C30: within one connectToDeltaStream call the token is requested only
\* after discovery has resolved, the socket is opened only after discovery
\* has resolved and the token has been obtained, and a call whose discovery
\* rejects rejects without a token request and without a socket.
C30_StepsAreOrdered ==
    /\ [](\A o \in Ops :
            ops[o].kind = "deltaStream"
                => /\ TokenRequested(o) => (PFulfilled(ops[o].p) /\ ops[o].ep = fnResult[ops[o].p])
                   /\ SocketOpened(o) => (TokenRequested(o) /\ ops[o].token # "none"
                                          /\ ops[o].url = fnResult[ops[o].p])
                   /\ ops[o].sockets > 0 => SocketOpened(o)
                   /\ PRejected(ops[o].p) => (~TokenRequested(o) /\ ~SocketOpened(o)
                                              /\ ops[o].pc \in {"awaitEndpoint", "rejected"}))
    /\ [][\A o \in Ops :
            (ops[o].kind = "deltaStream" /\ ops'[o] # ops[o])
                => CASE ops[o].pc = "awaitEndpoint" ->
                            IF PRejected(ops[o].p)
                            THEN ops'[o].pc = "rejected" /\ ops'[o].err = "discovery"
                            ELSE ops'[o].pc = "awaitToken"
                     [] ops[o].pc = "awaitToken" -> ops'[o].pc \in {"awaitSocket", "rejected"}
                     [] ops[o].pc = "awaitSocket" -> ops'[o].pc \in {"returned", "rejected"}
                     [] OTHER -> FALSE]_vars

\* One connectToDeltaStream call has its socket open, with a token obtained
\* after its discovery resolved; another rejected at discovery.
C30_Witness ==
    \E o1, o2 \in Ops :
        /\ ops[o1].kind = "deltaStream" /\ ops[o1].pc = "returned" /\ ops[o1].token = "token"
        /\ ops[o1].sockets = 1
        /\ ops[o2].kind = "deltaStream" /\ ops[o2].pc = "rejected" /\ ops[o2].err = "discovery"
        /\ ops[o2].token = "none" /\ ops[o2].sockets = 0

\* The accessor invocations that read the endpoint handle.
StreamOps == {o \in Ops : ops[o].kind = "deltaStream"}
EndpointOps == {o \in Ops : ops[o].kind \in {"deltaStorage", "deltaStream"}}

\* C31: connectToDeltaStorage and the first connectToDeltaStream of one
\* Document Service read the same endpoint handle: as long as
\* connectToDeltaStream has been called at most once, construction and any
\* connectToDeltaStorage and connectToDeltaStream calls, in either order and
\* with any overlap, have caused exactly one discovery call in total, the
\* one of construction, and every one of them awaits its promise.
C31_OneDiscoveryForBothAccessors ==
    (constructed /\ Cardinality(StreamOps) <= 1)
        => /\ fnCalls = 1
           /\ websocketEndpointP = 1
           /\ \A o \in EndpointOps : ops[o].p = 1 /\ ~ops[o].reconnect

\* A connectToDeltaStorage and the first connectToDeltaStream overlap, the
\* stream call begun first, both past their await of the one discovery call.
C31_Witness ==
    \E o1, o2 \in Ops :
        /\ o1 < o2
        /\ ops[o1].kind = "deltaStream" /\ ops[o2].kind = "deltaStorage"
        /\ ops[o1].pc = "awaitToken" /\ ops[o2].pc = "awaitToken"
        /\ Cardinality(StreamOps) = 1
        /\ fnCalls = 1

\* connectToDeltaStream invocation o has begun and has not settled.
StreamInProgress(o) ==
    /\ ops[o].kind = "deltaStream"
    /\ ops[o].pc \in {"awaitEndpoint", "awaitToken", "awaitSocket"}

\* C32: connectToDeltaStream has no mutual exclusion between attempts.  The
\* attempted flag is set before the first suspension point, so while a call
\* is in progress the flag is set and a call that begins then takes the
\* reconnect path; no call waits for another, and each call that gets its
\* endpoints and its token opens a socket of its own.
C32_OverlappingAttemptsBothConnect ==
    /\ []((\E o \in Ops : StreamInProgress(o)) => attemptedDeltaStreamConnection)
    /\ [][(StreamBegins /\ \E o \in Ops : StreamInProgress(o))
            => /\ ops'[nOps'].reconnect
               /\ ops'[nOps'].pc = "awaitEndpoint"
               /\ \A o \in Ops : StreamInProgress(o) => ops'[o] = ops[o]]_vars
    /\ [](\A o \in Ops : SocketOpened(o) => ops[o].sockets = 1)

\* The second call began while the first awaited the discovery call of
\* construction (both await promise 1, which the second could only get from
\* the coalescer while that call was pending); both have opened their socket
\* and neither has settled.
C32_Witness ==
    \E o1, o2 \in Ops :
        /\ o1 < o2
        /\ ops[o1].kind = "deltaStream" /\ ~ops[o1].reconnect
        /\ ops[o2].kind = "deltaStream" /\ ops[o2].reconnect
        /\ ops[o1].p = 1 /\ ops[o2].p = 1
        /\ ops[o1].pc = "awaitSocket" /\ ops[o2].pc = "awaitSocket"
        /\ ops[o1].sockets = 1 /\ ops[o2].sockets = 1

\* C34: a websocket token of null returned by the token provider is not
\* treated as an error: a connectToDeltaStream call whose discovery
\* succeeded and whose provider resolved to null opens its socket, once,
\* with the null token, and does not reject because of the token.
C34_NullTokenOpensSocket ==
    /\ [](\A o \in Ops :
            (ops[o].kind = "deltaStream" /\ ops[o].token = "null")
                => /\ PFulfilled(ops[o].p)
                   /\ SocketOpened(o)
                   /\ ops[o].sockets = 1
                   /\ ops[o].err # "token")
    /\ [][\A o \in Ops :
            (ops[o].kind = "deltaStream" /\ ops[o].pc = "awaitToken" /\ ops'[o].token = "null")
                => ops'[o].pc = "awaitSocket" /\ ops'[o].sockets = ops[o].sockets + 1]_vars

\* A connectToDeltaStream call returned its connection, opened with null.
C34_Witness ==
    \E o \in Ops :
        /\ ops[o].kind = "deltaStream" /\ ops[o].token = "null"
        /\ ops[o].pc = "returned" /\ ops[o].sockets = 1

\* The last start of the wrapped operation threw synchronously.
LastStartThrew == fnCalls > 0 /\ fnState[fnCalls] = "threw"

\* C38: if the wrapped operation throws synchronously when the coalescer
\* starts it, the coalescer is not left in the pending state: the next read
\* of response starts a fresh underlying call and is never handed a promise
\* that had settled before that throw.
C38_SyncThrowLeavesNoPendingState ==
    [][LastStartThrew
         => \A i \in Calls :
               ResponseRead(i) => (fnCalls' = fnCalls + 1 /\ i = fnCalls' /\ ~PSettled(i))]_vars

(***************************************************************************)
(* Vocabulary of the claims about the Concurrency Limiter                  *)
(***************************************************************************)

Completed(u) == unit[u] \in {"succeeded", "failed"}

\* Unit u completes in this step, by success or by failure.
Completes(u) == unit[u] = "running" /\ Completed(u)'

\* What a completion of unit u must do to release its slot.
SlotReleased(u) ==
    IF waitQueue # <<>>
    THEN /\ unit'[Head(waitQueue)] = "running"
         /\ waitQueue' = Tail(waitQueue)
         /\ Executing' = (Executing \ {u}) \cup {Head(waitQueue)}
         /\ running' = running
    ELSE /\ Executing' = Executing \ {u}
         /\ running' = running - 1
         /\ waitQueue' = <<>>

(***************************************************************************)
(* C7.  The limiter that createContainer configures with maximum           *)
(* K = maxConcurrentOrdererRequests never has more than K admitted units   *)
(* executing at the same time, whatever the arrival pattern, also when     *)
(* more than K units were submitted.                                       *)
(***************************************************************************)
C7_AtMostKExecuting ==
    capacity > 0 => Cardinality(Executing) <= driverPolicies.maxConcurrentOrdererRequests

\* K units execute while later submissions wait.
C7_Witness ==
    /\ capacity > 0 /\ Cardinality(Executing) = capacity
    /\ nUnits > capacity /\ waitQueue # <<>>

(***************************************************************************)
(* C8.  Units are admitted in the order they were submitted: the units     *)
(* admitted so far are a prefix of the submission order, and the queue     *)
(* holds the units submitted after them, oldest first.                     *)
(***************************************************************************)
C8_FifoAdmission ==
    /\ \A i \in 1..Len(admitted) : admitted[i] = i
    /\ \A j \in 1..Len(waitQueue) : waitQueue[j] = Len(admitted) + j

\* Two units that had to wait were admitted, behind the units that ran at once.
C8_Witness ==
    /\ Len(admitted) >= 3
    /\ Cardinality({u \in everQueued : unit[u] # "queued"}) >= 2
    /\ waitQueue # <<>>

(***************************************************************************)
(* C9.  The limiter never drops work: provided every admitted unit         *)
(* eventually settles, every submitted unit, queued or not, is eventually  *)
(* admitted and eventually completes.                                      *)
(***************************************************************************)
C9_NeverDropsWork ==
    \A u \in Units :
        /\ (unit[u] = "queued") ~> (unit[u] = "running")
        /\ (unit[u] \in {"queued", "running"}) ~> Completed(u)

\* A unit that had to wait has completed.
C9_Witness == \E u \in everQueued : Completed(u)

(***************************************************************************)
(* C10.  A running unit that completes by failure releases its slot just   *)
(* as one that completes by success: the unit at the head of the queue, if *)
(* any, is admitted in its place, else the running count decreases by one. *)
(* The count is always the number of executing units, so a failed unit     *)
(* never keeps a slot.                                                     *)
(***************************************************************************)
C10_FailureReleasesSlot ==
    /\ [][\A u \in Units : Completes(u) => SlotReleased(u)]_vars
    /\ [](running = Cardinality(Executing))
    /\ [](waitQueue # <<>> => running = capacity)

\* A unit failed while others waited, and the head of the queue took its slot.
C10_Witness ==
    \E u \in Units, w \in everQueued :
        /\ unit[u] = "failed" /\ unit[w] = "running"
        /\ running = capacity
        /\ \A v \in Units : unit[v] # "succeeded"

====
